---- MODULE Spec2Model ----
\* Model of the scheduled-capture / conversational-analysis / report
\* pipeline of src/athena_any_prompt.ts: main, evaluateScreenshotsWithClaude
\* and createReports.  One action per await point or statement group; the
\* outcomes of the external capabilities (page.goto, page.screenshot,
\* model.call, the fs calls) are nondeterministic inputs.
EXTENDS Integers, Sequences, FiniteSets, TLC

\* ---------------------------------------------------------------- bounds
MaxScreenshots == 3

\* Most command-line tokens of a run whose option parsing is explored.
MaxArgs == 2
\* Most createReports runs over the same output directory.
MaxReportRuns == 2

\* ------------------------------------------------------ program constants
NavRetries == 3
ShotRetries == 3
\* page.waitForTimeout(5000) after a failed attempt.
BackoffMs == 5000
\* parseInt(args.interval_ms || '60000', 10)
DefaultIntervalMs == 60000

\* Durations, in ms, one page.screenshot attempt of a run may take.
Durations == {0, 200}
\* Values of screenshotIntervalMs tried besides the default.
Intervals == {0, DefaultIntervalMs}

\* Assistant texts the chat capability may return.
Replies == {"reply-a", "reply-b"}

\* ----------------------------------------------------------------- state
VARIABLES
  pc,                \* position of the single thread of control
  argv,              \* process.argv.slice(2), one record per token
  config,            \* main: numScreenshots, screenshotIntervalMs, customPrompt
  priorDir,          \* the analysis directory as the latest re-run found it
  pathsFile,         \* capture-only variants: screenshot_paths.json, prompt.txt
  closes,            \* run: number of stagehand.close() invocations
  numScreenshots,    \* config.numScreenshots as an integer (0 when it is NaN)
  retries,           \* main: let retries (navigation)
  i,                 \* main: capture loop index
  screenshotRetries, \* main: let screenshotRetries
  screenshotPaths,   \* main: const screenshotPaths: string[]
  error,             \* the error caught by main's catch block ("" if none)
  thrown,            \* the error main rejects with ("" if none)
  clock,             \* the wall clock read by new Date(), in ms
  screenshotIntervalMs, \* main: const screenshotIntervalMs
  captureMs,         \* the time one page.screenshot attempt takes in this run
  timestamp,         \* main: const timestamp of the current loop iteration
  capturedAt,        \* the timestamp in the name of each pushed path
  completedAt,       \* history: the clock when each successful attempt resolved
  messages,          \* evaluateScreenshotsWithClaude: const messages
  annotations,       \* evaluateScreenshotsWithClaude: const annotations
  conversationLog,   \* evaluateScreenshotsWithClaude: let conversationLog
  summary,           \* evaluateScreenshotsWithClaude: const summary
  evalI,             \* evaluateScreenshotsWithClaude: loop index i
  inflight,          \* number of model.call promises not yet settled
  callInputs,        \* history: the message list handed to each model.call
  callReplies,       \* history: the text each settled model.call returned
  result,            \* value returned by evaluateScreenshotsWithClaude
  reportI,           \* createReports: loop index i
  reportCalls,       \* history: the arguments of each createReports call
  outputDir,         \* the files of the analysis directory
  events             \* history: the capability invocations, in order

timeVars   == <<clock, screenshotIntervalMs, captureMs, timestamp, capturedAt,
                completedAt>>
envVars    == <<argv, config, priorDir, pathsFile, closes>>
mainVars   == <<envVars, numScreenshots, retries, i, screenshotRetries, screenshotPaths,
                error, thrown, timeVars>>
evalVars   == <<messages, annotations, conversationLog, summary, evalI,
                inflight, callInputs, callReplies, result>>
reportVars == <<reportI, reportCalls, outputDir>>
vars       == <<pc, mainVars, evalVars, reportVars, events>>

\* ------------------------------------------------------------- data model
\* `screenshot-${i+1}-${timestamp}.png` inside screenshotsDir; the timestamp
\* part of the name of the k-th pushed path is kept in capturedAt[k].
ScreenshotPath(idx) ==
  [dir |-> "screenshots", stem |-> idx + 1, ext |-> ".png"]

\* path.basename(screenshotPath)
Basename(p) == [stem |-> p.stem, ext |-> p.ext]

\* screenshotFilename.replace('.png', '-annotation.md')
AnnotationFilename(f) ==
  IF f.ext = ".png" THEN [stem |-> f.stem, ext |-> "-annotation.md"] ELSE f

NoImage == [stem |-> 0, ext |-> ""]

SystemMessage == [role |-> "system", text |-> "persona", image |-> NoImage]

FirstPrompt  == "Evaluate this screenshot of a workflow"
NextPrompt   == "Analyze this new screenshot as well as the previous"
SummaryPrompt == "Based on all the screenshots you've analyzed"

\* mutant: every snapshot gets the prompt of the later snapshots.
PromptText_Same(idx) == NextPrompt

PromptText(idx) == IF idx = 0 THEN FirstPrompt ELSE NextPrompt

HumanMessage(text, image) == [role |-> "user", text |-> text, image |-> image]
AIMessage(text) == [role |-> "assistant", text |-> text, image |-> NoImage]

\* "Error evaluating screenshots: " + error / "Error generating summary: " + error
AnnotationSentinel(e) ==
  CASE e = "ChatError"      -> "Error evaluating screenshots: ChatError"
    [] e = "ImageLoadError" -> "Error evaluating screenshots: ImageLoadError"
    [] OTHER                -> "Error evaluating screenshots: WriteError"
SummarySentinel(e) ==
  CASE e = "ChatError"      -> "Error generating summary: ChatError"
    [] e = "ImageLoadError" -> "Error generating summary: ImageLoadError"
    [] OTHER                -> "Error generating summary: WriteError"

Event(name, idx) == [ev |-> name, idx |-> idx]
Log(name, idx) == events' = Append(events, Event(name, idx))

\* the two files of the capture-only variants, not written yet.
NoPathsFile == [paths |-> <<>>, prompt |-> <<>>]

EmptyDir == [images |-> {}, annotations |-> {}, summary |-> <<>>,
             log |-> <<>>, index |-> <<>>]

\* ------------------------------------------------- command-line options
\* a JavaScript number as parseInt returns it: NaN, or an integer.
NaN == [nan |-> TRUE, val |-> 0]
Num(n) == [nan |-> FALSE, val |-> n]

\* a JavaScript string | undefined; strings are sequences of characters.
Undefined == [defined |-> FALSE, chars |-> <<>>]
Str(s) == [defined |-> TRUE, chars |-> s]

Digits == <<"0", "1", "2", "3", "4", "5", "6", "7", "8", "9">>
IsDigit(c) == \E d \in 1..10 : Digits[d] = c
DigitVal(c) == (CHOOSE d \in 1..10 : Digits[d] = c) - 1

\* parseInt skips leading white space.
RECURSIVE TrimStart(_)
TrimStart(s) ==
  IF s # <<>> /\ Head(s) = " " THEN TrimStart(Tail(s)) ELSE s

\* the longest prefix of decimal digits.
RECURSIVE DigitPrefix(_)
DigitPrefix(s) ==
  IF s = <<>> \/ ~IsDigit(Head(s)) THEN <<>>
  ELSE <<Head(s)>> \o DigitPrefix(Tail(s))

RECURSIVE DigitsValue(_, _)
DigitsValue(s, acc) ==
  IF s = <<>> THEN acc ELSE DigitsValue(Tail(s), acc * 10 + DigitVal(Head(s)))

\* parseInt(s, 10): optional sign, then the digits up to the first character
\* that is not one; NaN when there is no digit.
ParseInt(s) ==
  LET t      == TrimStart(s)
      signed == t # <<>> /\ Head(t) \in {"-", "+"}
      neg    == t # <<>> /\ Head(t) = "-"
      ds     == DigitPrefix(IF signed THEN Tail(t) ELSE t)
  IN  IF ds = <<>> THEN NaN
      ELSE Num(IF neg THEN 0 - DigitsValue(ds, 0) ELSE DigitsValue(ds, 0))

\* mutant: the option is ignored, the default always wins.
OrDefault_Always(v, d) == d

\* args.x || d: undefined and the empty string are falsy.
OrDefault(v, d) == IF v.defined /\ v.chars # <<>> THEN v.chars ELSE d

\* one token of process.argv: `--key=value`, `--key` (value undefined) or a
\* token without the leading dashes.
Option(key, value) == [dashes |-> TRUE, key |-> key, value |-> value]

OptionKeys == {"num_screenshots", "interval_ms", "prompt"}

\* process.argv.slice(2).forEach(...): a later token of a key replaces an
\* earlier one, tokens that do not start with `--` are skipped.
RECURSIVE ParseArgv(_, _)
ParseArgv(tokens, args) ==
  IF tokens = <<>> THEN args
  ELSE LET t == Head(tokens)
       IN  ParseArgv(Tail(tokens),
                     IF t.dashes THEN [args EXCEPT ![t.key] = t.value] ELSE args)

DefaultNumScreenshots == <<"1", "0">>
DefaultInterval == <<"6", "0", "0", "0", "0">>
DefaultPrompt == <<"r", "e", "s", "e", "a", "r", "c", "h">>

\* the three constants main derives from the command line.
Configure(tokens) ==
  LET args == ParseArgv(tokens, [k \in OptionKeys |-> Undefined])
  IN  [numScreenshots |->
          ParseInt(OrDefault(args["num_screenshots"], DefaultNumScreenshots)),
       screenshotIntervalMs |->
          ParseInt(OrDefault(args["interval_ms"], DefaultInterval)),
       customPrompt |-> OrDefault(args["prompt"], DefaultPrompt)]

NotConfigured ==
  [numScreenshots |-> NaN, screenshotIntervalMs |-> NaN, customPrompt |-> <<>>]

\* String(n) for a natural number.
RECURSIVE Format(_)
Format(n) ==
  IF n < 10 THEN <<Digits[n + 1]>>
  ELSE Format(n \div 10) \o <<Digits[(n % 10) + 1]>>

\* option values tried on the command line.
OptionValues ==
  {Undefined, Str(<<>>), Str(<<"0">>), Str(<<"3">>), Str(<<"2", "5">>),
   Str(<<"-", "1">>), Str(<<"a", "b">>), Str(<<"7", "x">>)}

Tokens ==
  [dashes : BOOLEAN, key : OptionKeys, value : OptionValues]

RECURSIVE SeqsUpTo(_, _)
SeqsUpTo(S, n) ==
  IF n = 0 THEN {<<>>}
  ELSE LET shorter == SeqsUpTo(S, n - 1)
       IN  shorter \cup {Append(q, x) : q \in shorter, x \in S}

\* ------------------------------------------------------------------ Init
\* the variables of the analysis and of the report before either has run.
FreshAnalysis ==
  /\ messages = <<>>
  /\ annotations = <<>>
  /\ conversationLog = <<>>
  /\ summary = ""
  /\ evalI = 0
  /\ inflight = 0
  /\ callInputs = <<>>
  /\ callReplies = <<>>

FreshReport ==
  /\ priorDir = EmptyDir
  /\ pathsFile = NoPathsFile
  /\ closes = 0
  /\ reportI = 0
  /\ reportCalls = <<>>
  /\ outputDir = EmptyDir

\* the variables of the three phases before any of them has run.
Fresh ==
  /\ clock = 0
  /\ timestamp = 0
  /\ capturedAt = <<>>
  /\ completedAt = <<>>
  /\ retries = NavRetries
  /\ i = 0
  /\ screenshotRetries = 0
  /\ screenshotPaths = <<>>
  /\ error = ""
  /\ thrown = ""
  /\ result = [annotations |-> <<>>, summary |-> ""]
  /\ FreshAnalysis
  /\ FreshReport
  /\ events = <<>>

\* the state after the options are parsed, before the navigation: a command
\* line that names the snapshot count, with the interval tokens and a capture
\* duration drawn from the given sets.
InitFrom(countArgs, intervalArgs, durations) ==
  /\ pc = "nav"
  /\ argv \in {<<Option("num_screenshots", c)>> \o t :
                 c \in countArgs, t \in intervalArgs}
  /\ config = Configure(argv)
  /\ numScreenshots = config.numScreenshots.val
  /\ screenshotIntervalMs = config.screenshotIntervalMs.val
  /\ captureMs \in durations
  /\ Fresh

\* snapshot counts 0..MaxScreenshots as they are written on the command line.
CountArgs == {Str(Format(n)) : n \in 0..MaxScreenshots}

InitWith(intervalArgs, durations) ==
  InitFrom(CountArgs, intervalArgs, durations)

\* a run with the default interval.
Init == InitWith({<<>>}, {200})

\* a run whose snapshot count may also be negative or not a number.
AnyCountInit ==
  InitFrom(CountArgs \cup {Str(<<"-", "1">>), Str(<<"a", "b">>)}, {<<>>}, {200})

\* a run with any of the intervals and capture durations.
TimedInit ==
  InitWith({<<Option("interval_ms", Str(Format(t)))>> : t \in Intervals},
           Durations)

\* the state at the first statement of main, for any short command line.
ArgsInit ==
  /\ pc = "args"
  /\ argv \in SeqsUpTo(Tokens, MaxArgs)
  /\ config = NotConfigured
  /\ numScreenshots = 0
  /\ screenshotIntervalMs = 0
  /\ captureMs = 200
  /\ Fresh

\* ------------------------------------------------- main: option parsing
\* lines 256-269: args is filled from process.argv, then numScreenshots,
\* screenshotIntervalMs and customPrompt are derived from it.
ParseArgs ==
  /\ pc = "args"
  /\ pc' = "parsed"
  /\ config' = Configure(argv)
  /\ UNCHANGED <<argv, priorDir, pathsFile, closes, numScreenshots, retries, i, screenshotRetries,
                 screenshotPaths, error, thrown, timeVars, evalVars,
                 reportVars, events>>

\* ----------------------------------------------------- main: navigation
\* await page.goto(...) resolves.
NavOk ==
  /\ pc = "nav"
  /\ pc' = "setup"
  /\ Log("gotoOk", 0)
  /\ UNCHANGED <<mainVars, evalVars, reportVars>>

\* mutant: after the last failed navigation the run goes on to the login.
NavFail_Proceed ==
  /\ pc = "nav"
  /\ retries' = retries - 1
  /\ IF retries' = 0
       THEN /\ pc' = "setup"
            /\ UNCHANGED error
       ELSE /\ pc' = "navWait"
            /\ UNCHANGED error
  /\ Log("gotoFail", 0)
  /\ UNCHANGED <<envVars, numScreenshots, i, screenshotRetries, screenshotPaths, thrown,
                 timeVars, evalVars, reportVars>>

\* await page.goto(...) rejects: retries--, throw on 0, else wait.
NavFail ==
  /\ pc = "nav"
  /\ retries' = retries - 1
  /\ IF retries' = 0
       THEN /\ pc' = "catch"
            /\ error' = "NavigationError"
       ELSE /\ pc' = "navWait"
            /\ UNCHANGED error
  /\ Log("gotoFail", 0)
  /\ UNCHANGED <<envVars, numScreenshots, i, screenshotRetries, screenshotPaths, thrown,
                 timeVars, evalVars, reportVars>>

\* await page.waitForTimeout(5000) after a failed navigation.
NavWait ==
  /\ pc = "navWait"
  /\ pc' = "nav"
  /\ clock' = clock + BackoffMs
  /\ Log("navBackoff", 0)
  /\ UNCHANGED <<envVars, numScreenshots, retries, i, screenshotRetries, screenshotPaths,
                 error, thrown, screenshotIntervalMs, captureMs, timestamp,
                 capturedAt, completedAt, evalVars, reportVars>>

\* login, agent selection and prompt submission (the action capability).
SetupOk ==
  /\ pc = "setup"
  /\ pc' = "loop"
  /\ i' = 0
  /\ screenshotPaths' = <<>>
  /\ Log("setupOk", 0)
  /\ UNCHANGED <<envVars, numScreenshots, retries, screenshotRetries, error, thrown,
                 timeVars, evalVars, reportVars>>

SetupFail ==
  /\ pc = "setup"
  /\ pc' = "catch"
  /\ error' = "ActionError"
  /\ Log("setupFail", 0)
  /\ UNCHANGED <<envVars, numScreenshots, retries, i, screenshotRetries, screenshotPaths,
                 thrown, timeVars, evalVars, reportVars>>

\* --------------------------------------------------- main: capture loop
\* for (let i = 0; i < numScreenshots; i++): the loop test, and on entry
\* const timestamp = new Date(), the path of snapshot i and
\* let screenshotRetries = 3.
\* mutant: off-by-one loop bound.
\* mutant: the loop runs until i equals the count.
LoopCond_NotEqual(idx, n) == n.nan \/ idx # n.val
LoopCond_OffByOne(idx, n) == ~n.nan /\ idx <= n.val
\* i < numScreenshots on JavaScript numbers: false when numScreenshots is NaN.
LoopCond(idx, n) == ~n.nan /\ idx < n.val

\* const timestamp = new Date().toISOString(): the clock at the read.
StampAt(now) == now

\* mutant: one retry budget for the whole run, set before the first snapshot.
CaptureLoop_SharedBudget ==
  /\ pc = "loop"
  /\ IF LoopCond(i, config.numScreenshots)
       THEN /\ pc' = "shot"
            /\ screenshotRetries' = IF i = 0 THEN ShotRetries ELSE screenshotRetries
            /\ timestamp' = StampAt(clock)
            /\ Log("stamp", i)
       ELSE /\ pc' = "eval"
            /\ UNCHANGED <<screenshotRetries, timestamp, events>>
  /\ UNCHANGED <<envVars, numScreenshots, retries, i, screenshotPaths, error, thrown,
                 clock, screenshotIntervalMs, captureMs, capturedAt,
                 completedAt, evalVars, reportVars>>

CaptureLoop ==
  /\ pc = "loop"
  /\ IF LoopCond(i, config.numScreenshots)
       THEN /\ pc' = "shot"
            /\ screenshotRetries' = ShotRetries
            /\ timestamp' = StampAt(clock)
            /\ Log("stamp", i)
       ELSE /\ pc' = "eval"
            /\ UNCHANGED <<screenshotRetries, timestamp, events>>
  /\ UNCHANGED <<envVars, numScreenshots, retries, i, screenshotPaths, error, thrown,
                 clock, screenshotIntervalMs, captureMs, capturedAt,
                 completedAt, evalVars, reportVars>>

\* mutant: the idle wait also follows the last snapshot.
IdleCond_Always(idx, n) == ~n.nan /\ idx < n.val
\* if (i < numScreenshots - 1) await page.waitForTimeout(screenshotIntervalMs)
\* (NaN - 1 is NaN and the comparison is false).
IdleCond(idx, n) == ~n.nan /\ idx < n.val - 1

\* mutant: the name is stamped when the successful attempt has completed.
ShotOk_StampAtCompletion ==
  /\ pc = "shot"
  /\ screenshotPaths' = Append(screenshotPaths, ScreenshotPath(i))
  /\ IF IdleCond(i, config.numScreenshots)
       THEN /\ pc' = "idle"
            /\ UNCHANGED i
       ELSE /\ pc' = "loop"
            /\ i' = i + 1
  /\ clock' = clock + captureMs
  /\ capturedAt' = Append(capturedAt, clock')
  /\ completedAt' = Append(completedAt, clock')
  /\ Log("shotOk", i)
  /\ UNCHANGED <<envVars, numScreenshots, retries, screenshotRetries, error, thrown,
                 screenshotIntervalMs, captureMs, timestamp, evalVars,
                 reportVars>>

\* await page.screenshot(...) resolves: break, screenshotPaths.push(path),
\* then either the idle wait or the next iteration.
ShotOk ==
  /\ pc = "shot"
  /\ screenshotPaths' = Append(screenshotPaths, ScreenshotPath(i))
  /\ IF IdleCond(i, config.numScreenshots)
       THEN /\ pc' = "idle"
            /\ UNCHANGED i
       ELSE /\ pc' = "loop"
            /\ i' = i + 1
  /\ clock' = clock + captureMs
  /\ capturedAt' = Append(capturedAt, timestamp)
  /\ completedAt' = Append(completedAt, clock')
  /\ Log("shotOk", i)
  /\ UNCHANGED <<envVars, numScreenshots, retries, screenshotRetries, error, thrown,
                 screenshotIntervalMs, captureMs, timestamp, evalVars,
                 reportVars>>

\* if (screenshotRetries === 0) throw error
\* mutant: the exhaustion test never fires.
ShotExhausted_Never(r) == r < 0
ShotExhausted(r) == r = 0

\* mutant: the exhausted capture is logged but not rethrown, the loop goes on.
ShotFail_Swallow ==
  /\ pc = "shot"
  /\ screenshotRetries' = screenshotRetries - 1
  /\ IF ShotExhausted(screenshotRetries')
       THEN /\ pc' = "loop"
            /\ i' = i + 1
       ELSE /\ pc' = "shotWait"
            /\ UNCHANGED i
  /\ clock' = clock + captureMs
  /\ Log("shotFail", i)
  /\ UNCHANGED <<envVars, numScreenshots, retries, screenshotPaths, error, thrown,
                 screenshotIntervalMs, captureMs, timestamp, capturedAt,
                 completedAt, evalVars, reportVars>>

\* mutant: the failed attempt does not use up a retry.
ShotFail_NoDecrement ==
  /\ pc = "shot"
  /\ screenshotRetries' = screenshotRetries
  /\ IF ShotExhausted(screenshotRetries')
       THEN /\ pc' = "catch"
            /\ error' = "CaptureError"
       ELSE /\ pc' = "shotWait"
            /\ UNCHANGED error
  /\ clock' = clock + captureMs
  /\ Log("shotFail", i)
  /\ UNCHANGED <<envVars, numScreenshots, retries, i, screenshotPaths, thrown,
                 screenshotIntervalMs, captureMs, timestamp, capturedAt,
                 completedAt, evalVars, reportVars>>

\* mutant: a failed attempt is retried at once, without the wait.
ShotFail_NoWait ==
  /\ pc = "shot"
  /\ screenshotRetries' = screenshotRetries - 1
  /\ IF ShotExhausted(screenshotRetries')
       THEN /\ pc' = "catch"
            /\ error' = "CaptureError"
       ELSE /\ pc' = "shot"
            /\ UNCHANGED error
  /\ clock' = clock + captureMs
  /\ Log("shotFail", i)
  /\ UNCHANGED <<envVars, numScreenshots, retries, i, screenshotPaths, thrown,
                 screenshotIntervalMs, captureMs, timestamp, capturedAt,
                 completedAt, evalVars, reportVars>>

\* await page.screenshot(...) rejects: screenshotRetries--, throw on 0.
ShotFail ==
  /\ pc = "shot"
  /\ screenshotRetries' = screenshotRetries - 1
  /\ IF ShotExhausted(screenshotRetries')
       THEN /\ pc' = "catch"
            /\ error' = "CaptureError"
       ELSE /\ pc' = "shotWait"
            /\ UNCHANGED error
  /\ clock' = clock + captureMs
  /\ Log("shotFail", i)
  /\ UNCHANGED <<envVars, numScreenshots, retries, i, screenshotPaths, thrown,
                 screenshotIntervalMs, captureMs, timestamp, capturedAt,
                 completedAt, evalVars, reportVars>>

\* await page.waitForTimeout(5000), then while (screenshotRetries > 0).
ShotWait ==
  /\ pc = "shotWait"
  /\ IF screenshotRetries > 0
       THEN /\ pc' = "shot"
            /\ UNCHANGED <<i, screenshotPaths, capturedAt, completedAt>>
       ELSE /\ screenshotPaths' = Append(screenshotPaths, ScreenshotPath(i))
            /\ capturedAt' = Append(capturedAt, timestamp)
            /\ completedAt' = Append(completedAt, clock')
            /\ IF IdleCond(i, config.numScreenshots)
                 THEN pc' = "idle" /\ UNCHANGED i
                 ELSE pc' = "loop" /\ i' = i + 1
  /\ clock' = clock + BackoffMs
  /\ Log("backoff", i)
  /\ UNCHANGED <<envVars, numScreenshots, retries, screenshotRetries, error, thrown,
                 screenshotIntervalMs, captureMs, timestamp, evalVars,
                 reportVars>>

\* mutant: the idle wait is not awaited, no time passes.
Idle_NotAwaited ==
  /\ pc = "idle"
  /\ pc' = "loop"
  /\ i' = i + 1
  /\ Log("idle", i)
  /\ UNCHANGED <<envVars, numScreenshots, retries, screenshotRetries, screenshotPaths,
                 error, thrown, timeVars, evalVars, reportVars>>

\* await page.waitForTimeout(screenshotIntervalMs) between two snapshots.
Idle ==
  /\ pc = "idle"
  /\ pc' = "loop"
  /\ i' = i + 1
  /\ clock' = clock + screenshotIntervalMs
  /\ Log("idle", i)
  /\ UNCHANGED <<envVars, numScreenshots, retries, screenshotRetries, screenshotPaths,
                 error, thrown, screenshotIntervalMs, captureMs, timestamp,
                 capturedAt, completedAt, evalVars, reportVars>>

\* mutant: the catch block rethrows at once, without the diagnostic capture.
DiagOk_NoDiagnostic ==
  /\ pc = "catch"
  /\ pc' = "rejected"
  /\ thrown' = error
  /\ Log("consoleError", 0)
  /\ UNCHANGED <<envVars, numScreenshots, retries, i, screenshotRetries, screenshotPaths,
                 error, timeVars, evalVars, reportVars>>

\* ---------------------------------------------------- main: catch block
\* console.error, then the diagnostic page.screenshot resolves: throw error.
DiagOk ==
  /\ pc = "catch"
  /\ pc' = "rejected"
  /\ thrown' = error
  /\ events' = events \o <<Event("consoleError", 0), Event("diagOk", 0)>>
  /\ UNCHANGED <<envVars, numScreenshots, retries, i, screenshotRetries, screenshotPaths,
                 error, timeVars, evalVars, reportVars>>

\* the diagnostic page.screenshot rejects inside the catch block: its own
\* error leaves main and `throw error` is never reached.
DiagFail ==
  /\ pc = "catch"
  /\ pc' = "rejected"
  /\ thrown' = "DiagnosticError"
  /\ events' = events \o <<Event("consoleError", 0), Event("diagFail", 0)>>
  /\ UNCHANGED <<envVars, numScreenshots, retries, i, screenshotRetries, screenshotPaths,
                 error, timeVars, evalVars, reportVars>>

\* ------------------------------------- evaluateScreenshotsWithClaude
\* `data:image/png;base64,${base64Image}` of the file at path p.
ImageOf(p) == [stem |-> p.stem, ext |-> p.ext]

\* the value returned from the catch block.
Degraded(e) ==
  [annotations |-> <<AnnotationSentinel(e)>>, summary |-> SummarySentinel(e)]

\* one `## Screenshot ${i+1}: ${screenshotFilename}` section of the log.
\* `*Timestamp: ${new Date().toLocaleString()}*` is the clock at the append.
ScreenshotSection(idx, p, text, now) ==
  [heading |-> "Screenshot", n |-> idx + 1, file |-> Basename(p),
   timestamp |-> now, text |-> text]

\* the `## Workflow Summary` section of the log.
SummarySection(text, now) ==
  [heading |-> "Workflow Summary", n |-> 0, file |-> NoImage,
   timestamp |-> now, text |-> text]

\* const messages = [new SystemMessage(...)], annotations = [], log = "".
EvalStart ==
  /\ pc = "eval"
  /\ pc' = "evalLoop"
  /\ messages' = <<SystemMessage>>
  /\ annotations' = <<>>
  /\ conversationLog' = <<>>
  /\ evalI' = 0
  /\ UNCHANGED <<mainVars, summary, inflight, callInputs, callReplies, result,
                 reportVars, events>>

\* for (let i = 0; i < screenshotPaths.length; i++): the loop test.
EvalLoop ==
  /\ pc = "evalLoop"
  /\ pc' = IF evalI < Len(screenshotPaths) THEN "evalLoad" ELSE "summaryAsk"
  /\ UNCHANGED <<mainVars, evalVars, reportVars, events>>

\* mutant: only the newest turn is sent, as to a stateful session.
StartCall_LastOnly(msgs) ==
  /\ inflight' = inflight + 1
  /\ callInputs' = Append(callInputs, <<msgs[Len(msgs)]>>)
  /\ Log("chatCall", Len(callInputs))

\* model.call(messages): the call starts with the current message list.
StartCall(msgs) ==
  /\ inflight' = inflight + 1
  /\ callInputs' = Append(callInputs, msgs)
  /\ Log("chatCall", Len(callInputs))

\* mutant: model.call is not awaited, the loop goes on at once.
LoadImageOk_NoAwait ==
  /\ pc = "evalLoad"
  /\ pc' = "evalLoop"
  /\ messages' = Append(messages,
                   HumanMessage(PromptText(evalI),
                                ImageOf(screenshotPaths[evalI + 1])))
  /\ StartCall(messages')
  /\ evalI' = evalI + 1
  /\ UNCHANGED <<mainVars, annotations, conversationLog, summary,
                 callReplies, result, reportVars>>

\* imageToBase64 resolves; messages.push(new HumanMessage({text, image}));
\* model.call(messages) is started.
LoadImageOk ==
  /\ pc = "evalLoad"
  /\ pc' = "evalAwait"
  /\ messages' = Append(messages,
                   HumanMessage(PromptText(evalI),
                                ImageOf(screenshotPaths[evalI + 1])))
  /\ StartCall(messages')
  /\ UNCHANGED <<mainVars, annotations, conversationLog, summary, evalI,
                 callReplies, result, reportVars>>

\* imageToBase64 throws: caught by the function's catch block.
LoadImageFail ==
  /\ pc = "evalLoad"
  /\ pc' = "reports"
  /\ result' = Degraded("ImageLoadError")
  /\ Log("imageFail", evalI)
  /\ UNCHANGED <<mainVars, messages, annotations, conversationLog, summary,
                 evalI, inflight, callInputs, callReplies, reportVars>>

\* mutant: the assistant reply is recorded but not pushed to messages.
ChatReply_NoPush ==
  /\ pc = "evalAwait"
  /\ \E r \in Replies :
       /\ annotations' = Append(annotations, r)
       /\ conversationLog' = Append(conversationLog,
             ScreenshotSection(evalI, screenshotPaths[evalI + 1], r, clock))
       /\ callReplies' = Append(callReplies, r)
  /\ inflight' = inflight - 1
  /\ evalI' = evalI + 1
  /\ pc' = "evalLoop"
  /\ Log("chatReply", Len(callReplies))
  /\ UNCHANGED <<mainVars, messages, summary, callInputs, result, reportVars>>

\* mutant: the log file is rewritten after every reply.
ChatReply_LogEach ==
  /\ pc = "evalAwait"
  /\ \E r \in Replies :
       /\ messages' = Append(messages, AIMessage(r))
       /\ annotations' = Append(annotations, r)
       /\ conversationLog' = Append(conversationLog,
             ScreenshotSection(evalI, screenshotPaths[evalI + 1], r, clock))
       /\ callReplies' = Append(callReplies, r)
  /\ outputDir' = [outputDir EXCEPT !.log = <<conversationLog'>>]
  /\ inflight' = inflight - 1
  /\ evalI' = evalI + 1
  /\ pc' = "evalLoop"
  /\ Log("chatReply", Len(callReplies))
  /\ UNCHANGED <<mainVars, summary, callInputs, result, reportI, reportCalls>>

\* mutant: the annotation is put at the front of the array.
ChatReply_Unshift ==
  /\ pc = "evalAwait"
  /\ \E r \in Replies :
       /\ messages' = Append(messages, AIMessage(r))
       /\ annotations' = <<r>> \o annotations
       /\ conversationLog' = Append(conversationLog,
             ScreenshotSection(evalI, screenshotPaths[evalI + 1], r, clock))
       /\ callReplies' = Append(callReplies, r)
  /\ inflight' = inflight - 1
  /\ evalI' = evalI + 1
  /\ pc' = "evalLoop"
  /\ Log("chatReply", Len(callReplies))
  /\ UNCHANGED <<mainVars, summary, callInputs, result, reportVars>>

\* mutant: the conversation is rebuilt from the latest exchange only.
ChatReply_Rebuild ==
  /\ pc = "evalAwait"
  /\ \E r \in Replies :
       /\ messages' = <<SystemMessage, messages[Len(messages)], AIMessage(r)>>
       /\ annotations' = Append(annotations, r)
       /\ conversationLog' = Append(conversationLog,
             ScreenshotSection(evalI, screenshotPaths[evalI + 1], r, clock))
       /\ callReplies' = Append(callReplies, r)
  /\ inflight' = inflight - 1
  /\ evalI' = evalI + 1
  /\ pc' = "evalLoop"
  /\ Log("chatReply", Len(callReplies))
  /\ UNCHANGED <<mainVars, summary, callInputs, result, reportVars>>

\* await model.call(messages) resolves inside the loop:
\* messages.push(new AIMessage(annotation)); annotations.push(annotation);
\* the log section is appended; i++.
ChatReply ==
  /\ pc = "evalAwait"
  /\ \E r \in Replies :
       /\ messages' = Append(messages, AIMessage(r))
       /\ annotations' = Append(annotations, r)
       /\ conversationLog' = Append(conversationLog,
             ScreenshotSection(evalI, screenshotPaths[evalI + 1], r, clock))
       /\ callReplies' = Append(callReplies, r)
  /\ inflight' = inflight - 1
  /\ evalI' = evalI + 1
  /\ pc' = "evalLoop"
  /\ Log("chatReply", Len(callReplies))
  /\ UNCHANGED <<mainVars, summary, callInputs, result, reportVars>>

\* mutant: no try/catch around the analysis, the error reaches main's catch.
ChatFail_Rethrow ==
  /\ pc = "evalAwait"
  /\ pc' = "catch"
  /\ inflight' = inflight - 1
  /\ error' = "ChatError"
  /\ Log("chatFail", Len(callReplies))
  /\ UNCHANGED <<envVars, numScreenshots, retries, i, screenshotRetries, screenshotPaths,
                 thrown, timeVars, messages, annotations, conversationLog, summary,
                 evalI, callInputs, callReplies, result, reportVars>>

\* mutant: the failure is caught per call, the loop goes on with a sentinel.
ChatFail_Continue ==
  /\ pc = "evalAwait"
  /\ pc' = "evalLoop"
  /\ inflight' = inflight - 1
  /\ annotations' = Append(annotations, AnnotationSentinel("ChatError"))
  /\ evalI' = evalI + 1
  /\ Log("chatFail", Len(callReplies))
  /\ UNCHANGED <<mainVars, messages, conversationLog, summary, callInputs,
                 callReplies, result, reportVars>>

\* await model.call(messages) rejects inside the loop: catch block.
ChatFail ==
  /\ pc = "evalAwait"
  /\ pc' = "reports"
  /\ inflight' = inflight - 1
  /\ result' = Degraded("ChatError")
  /\ Log("chatFail", Len(callReplies))
  /\ UNCHANGED <<mainVars, messages, annotations, conversationLog, summary,
                 evalI, callInputs, callReplies, reportVars>>

\* mutant: the summary is asked in a conversation of its own.
SummaryAsk_FreshConversation ==
  /\ pc = "summaryAsk"
  /\ pc' = "summaryAwait"
  /\ messages' = Append(messages, HumanMessage(SummaryPrompt, NoImage))
  /\ StartCall(<<SystemMessage, HumanMessage(SummaryPrompt, NoImage)>>)
  /\ UNCHANGED <<mainVars, annotations, conversationLog, summary, evalI,
                 callReplies, result, reportVars>>

\* mutant: the summary request is pushed as a second system turn.
SummaryAsk_AsSystem ==
  /\ pc = "summaryAsk"
  /\ pc' = "summaryAwait"
  /\ messages' = Append(messages,
                   [role |-> "system", text |-> SummaryPrompt, image |-> NoImage])
  /\ StartCall(messages')
  /\ UNCHANGED <<mainVars, annotations, conversationLog, summary, evalI,
                 callReplies, result, reportVars>>

\* messages.push(new HumanMessage(summary request)); model.call(messages).
SummaryAsk ==
  /\ pc = "summaryAsk"
  /\ pc' = "summaryAwait"
  /\ messages' = Append(messages, HumanMessage(SummaryPrompt, NoImage))
  /\ StartCall(messages')
  /\ UNCHANGED <<mainVars, annotations, conversationLog, summary, evalI,
                 callReplies, result, reportVars>>

\* mutant: the summary section is not added to the log.
SummaryReply_NoSection ==
  /\ pc = "summaryAwait"
  /\ pc' = "evalWriteLog"
  /\ \E r \in Replies :
       /\ summary' = r
       /\ callReplies' = Append(callReplies, r)
  /\ inflight' = inflight - 1
  /\ Log("chatReply", Len(callReplies))
  /\ UNCHANGED <<mainVars, messages, annotations, conversationLog, evalI,
                 callInputs, result, reportVars>>

\* the summary call resolves: const summary = summaryResponse.content and the
\* summary section is appended to the log.  The reply is not pushed to messages.
SummaryReply ==
  /\ pc = "summaryAwait"
  /\ pc' = "evalWriteLog"
  /\ \E r \in Replies :
       /\ summary' = r
       /\ conversationLog' = Append(conversationLog, SummarySection(r, clock))
       /\ callReplies' = Append(callReplies, r)
  /\ inflight' = inflight - 1
  /\ Log("chatReply", Len(callReplies))
  /\ UNCHANGED <<mainVars, messages, annotations, evalI, callInputs, result,
                 reportVars>>

\* the summary call rejects: catch block.
SummaryFail ==
  /\ pc = "summaryAwait"
  /\ pc' = "reports"
  /\ inflight' = inflight - 1
  /\ result' = Degraded("ChatError")
  /\ Log("chatFail", Len(callReplies))
  /\ UNCHANGED <<mainVars, messages, annotations, conversationLog, summary,
                 evalI, callInputs, callReplies, reportVars>>

\* fs.writeFileSync(conversation_log.md) succeeds; return {annotations, summary}.
WriteLogOk ==
  /\ pc = "evalWriteLog"
  /\ pc' = "reports"
  /\ outputDir' = [outputDir EXCEPT !.log = <<conversationLog>>]
  /\ result' = [annotations |-> annotations, summary |-> summary]
  /\ Log("writeLog", 0)
  /\ UNCHANGED <<mainVars, messages, annotations, conversationLog, summary,
                 evalI, inflight, callInputs, callReplies, reportI, reportCalls>>

\* fs.writeFileSync(conversation_log.md) throws: catch block.
WriteLogFail ==
  /\ pc = "evalWriteLog"
  /\ pc' = "reports"
  /\ result' = Degraded("WriteError")
  /\ Log("writeLogFail", 0)
  /\ UNCHANGED <<mainVars, messages, annotations, conversationLog, summary,
                 evalI, inflight, callInputs, callReplies, reportVars>>

\* ----------------------------------------------------------- createReports
\* mutant: a file that exists is kept, the new text goes to a numbered copy.
WriteFile_NoOverwrite(dir, name, text) ==
  IF \E f \in dir : f.name = name
    THEN dir \cup {[name |-> [stem |-> name.stem + 100, ext |-> name.ext],
                    text |-> text]}
    ELSE dir \cup {[name |-> name, text |-> text]}

\* fs.writeFileSync / fs.copyFileSync replace a file of the same name.
WriteFile(dir, name, text) ==
  {f \in dir : f.name # name} \cup {[name |-> name, text |-> text]}

\* mutant: the entry is labelled with the 0-based map index.
IndexEntry_ZeroBased(p, index) ==
  [label |-> index, img |-> Basename(p),
   href |-> AnnotationFilename(Basename(p))]

\* one `<div class="screenshot-item">` of index.html (map index is 0-based).
IndexEntry(p, index) ==
  [label |-> index + 1, img |-> Basename(p),
   href |-> AnnotationFilename(Basename(p))]

\* the index.html template: summary block, one item per path, two links.
IndexHtml(paths, text) ==
  [summary |-> text,
   entries |-> [j \in 1..Len(paths) |-> IndexEntry(paths[j], j - 1)],
   links   |-> {"conversation_log.md", "workflow_summary.md"}]

\* main calls createReports(screenshotPaths, annotations, summary, outputDir).
ReportStart ==
  /\ pc = "reports"
  /\ pc' = "reportLoop"
  /\ reportCalls' = Append(reportCalls,
        [paths |-> screenshotPaths, annotations |-> result.annotations,
         summary |-> result.summary])
  /\ reportI' = 0
  /\ Log("createReports", Len(reportCalls))
  /\ UNCHANGED <<mainVars, evalVars, outputDir>>

\* for (let i = 0; i < screenshotPaths.length; i++): the loop test.
ReportLoop ==
  /\ pc = "reportLoop"
  /\ pc' = IF reportI < Len(screenshotPaths) THEN "copy" ELSE "writeSummary"
  /\ UNCHANGED <<mainVars, evalVars, reportVars, events>>

\* fs.copyFileSync(screenshotPath, outputDir/screenshotFilename) succeeds.
CopyOk ==
  /\ pc = "copy"
  /\ pc' = "writeAnnotation"
  /\ outputDir' = [outputDir EXCEPT
        !.images = @ \cup {Basename(screenshotPaths[reportI + 1])}]
  /\ Log("copy", reportI)
  /\ UNCHANGED <<mainVars, evalVars, reportI, reportCalls>>

\* mutant: createReports has no try/catch, the write error reaches main.
ReportCatch_Rethrow(name, idx) ==
  /\ pc' = "catch"
  /\ error' = "WriteError"
  /\ Log(name, idx)
  /\ UNCHANGED <<envVars, numScreenshots, retries, i, screenshotRetries, screenshotPaths,
                 thrown, timeVars, evalVars, reportVars>>

\* mutant: the catch block removes what the run has written so far.
ReportCatch_Rollback(name, idx) ==
  /\ pc' = "done"
  /\ outputDir' = [outputDir EXCEPT !.images = {}, !.annotations = {},
                                    !.summary = <<>>, !.index = <<>>]
  /\ Log(name, idx)
  /\ UNCHANGED <<mainVars, evalVars, reportI, reportCalls>>

\* a file operation of createReports throws: console.error, return.
ReportCatch(name, idx) ==
  /\ pc' = "done"
  /\ Log(name, idx)
  /\ UNCHANGED <<mainVars, evalVars, reportVars>>

CopyFail ==
  /\ pc = "copy"
  /\ ReportCatch("copyFail", reportI)

\* const annotation = annotations[i] is undefined past the end of the array.
HasAnnotation(anns, idx) == idx + 1 <= Len(anns)

\* fs.writeFileSync(annotationFilename, annotation) succeeds.
WriteAnnotationOk ==
  /\ pc = "writeAnnotation"
  /\ HasAnnotation(result.annotations, reportI)
  /\ pc' = "reportLoop"
  /\ outputDir' = [outputDir EXCEPT
        !.annotations = WriteFile(@,
            AnnotationFilename(Basename(screenshotPaths[reportI + 1])),
            result.annotations[reportI + 1])]
  /\ reportI' = reportI + 1
  /\ Log("writeAnnotation", reportI)
  /\ UNCHANGED <<mainVars, evalVars, reportCalls>>

\* fs.writeFileSync(annotationFilename, annotation) fails on the file system.
WriteAnnotationFail ==
  /\ pc = "writeAnnotation"
  /\ HasAnnotation(result.annotations, reportI)
  /\ ReportCatch("writeAnnotationFail", reportI)

\* fs.writeFileSync(annotationFilename, undefined): Node throws a TypeError
\* (ERR_INVALID_ARG_TYPE) for data that is not a string or a buffer.
WriteAnnotationUndefined ==
  /\ pc = "writeAnnotation"
  /\ ~HasAnnotation(result.annotations, reportI)
  /\ ReportCatch("writeUndefined", reportI)

\* fs.writeFileSync(workflow_summary.md, summary) succeeds.
WriteSummaryOk ==
  /\ pc = "writeSummary"
  /\ pc' = "writeIndex"
  /\ outputDir' = [outputDir EXCEPT !.summary = <<result.summary>>]
  /\ Log("writeSummary", 0)
  /\ UNCHANGED <<mainVars, evalVars, reportI, reportCalls>>

WriteSummaryFail ==
  /\ pc = "writeSummary"
  /\ ReportCatch("writeSummaryFail", 0)

\* fs.writeFileSync(index.html, indexHtml) succeeds; createReports returns and
\* main logs the result paths and returns.
WriteIndexOk ==
  /\ pc = "writeIndex"
  /\ pc' = "done"
  /\ outputDir' = [outputDir EXCEPT
        !.index = <<IndexHtml(screenshotPaths, result.summary)>>]
  /\ Log("writeIndex", 0)
  /\ UNCHANGED <<mainVars, evalVars, reportI, reportCalls>>

WriteIndexFail ==
  /\ pc = "writeIndex"
  /\ ReportCatch("writeIndexFail", 0)

\* the values evaluateScreenshotsWithClaude can return for n snapshots: one
\* annotation per snapshot and a summary, or the value of its catch block.
AnalysisResults(n) ==
  {[annotations |-> a, summary |-> t] : a \in [1..n -> Replies], t \in Replies}
    \cup {Degraded("ChatError")}

\* the transcript a successful analysis has written before it returns.
Transcript(paths, r) ==
  [k \in 1..Len(paths) |->
      ScreenshotSection(k - 1, paths[k], r.annotations[k], 0)]
    \o <<SummarySection(r.summary, 0)>>

\* the state at the call of createReports (line 431) for any number of
\* snapshots and any analysis result; the locals of the analysis are gone.
ReportInit ==
  /\ pc = "reports"
  /\ argv \in {<<Option("num_screenshots", Str(Format(n)))>> :
                 n \in 0..MaxScreenshots}
  /\ config = Configure(argv)
  /\ numScreenshots = config.numScreenshots.val
  /\ screenshotIntervalMs = config.screenshotIntervalMs.val
  /\ captureMs = 200
  /\ clock = 0
  /\ timestamp = 0
  /\ capturedAt = [k \in 1..numScreenshots |-> 0]
  /\ completedAt = [k \in 1..numScreenshots |-> 0]
  /\ retries = NavRetries
  /\ i = numScreenshots
  /\ screenshotRetries = IF numScreenshots = 0 THEN 0 ELSE ShotRetries
  /\ screenshotPaths = [k \in 1..numScreenshots |-> ScreenshotPath(k - 1)]
  /\ error = ""
  /\ thrown = ""
  /\ result \in AnalysisResults(numScreenshots)
  /\ FreshAnalysis
  /\ priorDir = EmptyDir
  /\ pathsFile = NoPathsFile
  /\ closes = 0
  /\ reportI = 0
  /\ reportCalls = <<>>
  /\ outputDir =
       IF result = Degraded("ChatError") THEN EmptyDir
       ELSE [EmptyDir EXCEPT !.log = <<Transcript(screenshotPaths, result)>>]
  /\ events = <<>>

\* createReports is run once more with the same arguments over the directory
\* the previous run left.
Rerun ==
  /\ pc = "done"
  /\ Len(reportCalls) < MaxReportRuns
  /\ pc' = "reports"
  /\ priorDir' = outputDir
  /\ UNCHANGED <<argv, config, pathsFile, closes, numScreenshots, retries, i, screenshotRetries,
                 screenshotPaths, error, thrown, timeVars, evalVars,
                 reportVars, events>>

\* ------------------------------------- capture-only variants of main
\* JSON.stringify(screenshotPaths): a JSON array of the path strings.
JsonStringify(paths) == [json |-> "array", items |-> paths]

\* mutant: the list is written without its last path.
WritePathsOk_DropLast ==
  /\ pc = "eval"
  /\ pc' = "pathsWritten"
  /\ pathsFile' = [pathsFile EXCEPT !.paths =
        <<JsonStringify(SubSeq(screenshotPaths, 1, Len(screenshotPaths) - 1))>>]
  /\ Log("writePaths", 0)
  /\ UNCHANGED <<argv, config, priorDir, closes, numScreenshots, retries, i,
                 screenshotRetries, screenshotPaths, error, thrown, timeVars,
                 evalVars, reportVars>>

\* after the loop: fs.writeFileSync(screenshot_paths.json, ...) succeeds.
WritePathsOk ==
  /\ pc = "eval"
  /\ pc' = "pathsWritten"
  /\ pathsFile' = [pathsFile EXCEPT !.paths = <<JsonStringify(screenshotPaths)>>]
  /\ Log("writePaths", 0)
  /\ UNCHANGED <<argv, config, priorDir, closes, numScreenshots, retries, i,
                 screenshotRetries, screenshotPaths, error, thrown, timeVars,
                 evalVars, reportVars>>

\* fs.writeFileSync(screenshot_paths.json, ...) throws inside main's try.
WritePathsFail ==
  /\ pc = "eval"
  /\ pc' = "catch"
  /\ error' = "WriteError"
  /\ Log("writePathsFail", 0)
  /\ UNCHANGED <<envVars, numScreenshots, retries, i, screenshotRetries,
                 screenshotPaths, thrown, timeVars, evalVars, reportVars>>

\* the variant without a prompt file logs and returns.
CaptureOnlyReturn ==
  /\ pc = "pathsWritten"
  /\ pc' = "done"
  /\ UNCHANGED <<mainVars, evalVars, reportVars, events>>

\* the variant with a prompt: fs.writeFileSync(prompt.txt, customPrompt).
WritePromptOk ==
  /\ pc = "pathsWritten"
  /\ pc' = "done"
  /\ pathsFile' = [pathsFile EXCEPT !.prompt = <<config.customPrompt>>]
  /\ Log("writePrompt", 0)
  /\ UNCHANGED <<argv, config, priorDir, closes, numScreenshots, retries, i,
                 screenshotRetries, screenshotPaths, error, thrown, timeVars,
                 evalVars, reportVars>>

WritePromptFail ==
  /\ pc = "pathsWritten"
  /\ pc' = "catch"
  /\ error' = "WriteError"
  /\ Log("writePromptFail", 0)
  /\ UNCHANGED <<envVars, numScreenshots, retries, i, screenshotRetries,
                 screenshotPaths, thrown, timeVars, evalVars, reportVars>>

\* ------------------------------------------------------ entry point run
\* mutant: run closes the session in a finally block.
RunReject_Finally ==
  /\ pc = "rejected"
  /\ pc' = "runRejected"
  /\ closes' = closes + 1
  /\ Log("close", 0)
  /\ UNCHANGED <<argv, config, priorDir, pathsFile, numScreenshots, retries, i,
                 screenshotRetries, screenshotPaths, error, thrown, timeVars,
                 evalVars, reportVars>>

\* await main(...) rejects: the rejection leaves run, the statements after
\* the await are skipped.
RunReject ==
  /\ pc = "rejected"
  /\ pc' = "runRejected"
  /\ UNCHANGED <<mainVars, evalVars, reportVars, events>>

\* await main(...) resolves; await stagehand.close() resolves.
CloseOk ==
  /\ pc = "done"
  /\ pc' = "exited"
  /\ closes' = closes + 1
  /\ Log("close", 0)
  /\ UNCHANGED <<argv, config, priorDir, pathsFile, numScreenshots, retries, i,
                 screenshotRetries, screenshotPaths, error, thrown, timeVars,
                 evalVars, reportVars>>

\* await main(...) resolves; await stagehand.close() rejects.
CloseFail ==
  /\ pc = "done"
  /\ pc' = "runRejected"
  /\ closes' = closes + 1
  /\ Log("closeFail", 0)
  /\ UNCHANGED <<argv, config, priorDir, pathsFile, numScreenshots, retries, i,
                 screenshotRetries, screenshotPaths, error, thrown, timeVars,
                 evalVars, reportVars>>

\* ------------------------------------------------------- specification
Next ==
  \/ NavOk \/ NavFail \/ NavWait \/ SetupOk \/ SetupFail
  \/ CaptureLoop \/ ShotOk \/ ShotFail \/ ShotWait \/ Idle
  \/ DiagOk \/ DiagFail
  \/ EvalStart \/ EvalLoop \/ LoadImageOk \/ LoadImageFail
  \/ ChatReply \/ ChatFail \/ SummaryAsk \/ SummaryReply \/ SummaryFail
  \/ WriteLogOk \/ WriteLogFail
  \/ ReportStart \/ ReportLoop \/ CopyOk \/ CopyFail
  \/ WriteAnnotationOk \/ WriteAnnotationFail \/ WriteAnnotationUndefined
  \/ WriteSummaryOk \/ WriteSummaryFail \/ WriteIndexOk \/ WriteIndexFail

Spec == Init /\ [][Next]_vars

\* the same pipeline for every interval and capture duration.
TimedSpec == TimedInit /\ [][Next]_vars

\* every capability invocation returns: the pipeline keeps taking steps.
LiveSpec == Init /\ [][Next]_vars /\ WF_vars(Next)

\* the option parsing alone, over every short command line.
ArgsNext == ParseArgs
ArgsSpec == ArgsInit /\ [][ArgsNext]_vars

\* the pipeline for snapshot counts that are negative or not a number too.
AnyCountSpec == AnyCountInit /\ [][Next]_vars

\* the capture-only variants: navigation, capture loop, the path list.
CaptureOnlyNext ==
  \/ NavOk \/ NavFail \/ NavWait \/ SetupOk \/ SetupFail
  \/ CaptureLoop \/ ShotOk \/ ShotFail \/ ShotWait \/ Idle
  \/ DiagOk \/ DiagFail
  \/ WritePathsOk \/ WritePathsFail
  \/ CaptureOnlyReturn \/ WritePromptOk \/ WritePromptFail
CaptureOnlySpec == Init /\ [][CaptureOnlyNext]_vars

\* the pipeline as run calls it, up to the end of run.
RunNext == Next \/ RunReject \/ CloseOk \/ CloseFail
RunSpec == Init /\ [][RunNext]_vars

\* createReports alone, run up to MaxReportRuns times over one directory.
RerunNext ==
  \/ ReportStart \/ ReportLoop \/ CopyOk \/ CopyFail
  \/ WriteAnnotationOk \/ WriteAnnotationFail \/ WriteAnnotationUndefined
  \/ WriteSummaryOk \/ WriteSummaryFail \/ WriteIndexOk \/ WriteIndexFail
  \/ Rerun
RerunSpec == ReportInit /\ [][RerunNext]_vars

TypeOK ==
  /\ pc \in {"args", "parsed", "nav", "navWait", "setup", "loop", "shot",
             "shotWait", "idle", "pathsWritten", "exited", "runRejected",
             "catch", "rejected", "eval", "evalLoop", "evalLoad", "evalAwait",
             "summaryAsk", "summaryAwait", "evalWriteLog", "reports",
             "reportLoop", "copy", "writeAnnotation", "writeSummary",
             "writeIndex", "done"}
  /\ numScreenshots \in (0 - 1)..MaxScreenshots
  /\ pc \notin {"args", "parsed"} =>
        /\ config = Configure(argv)
        /\ config.numScreenshots.val = numScreenshots
        /\ config.screenshotIntervalMs = Num(screenshotIntervalMs)
  /\ i \in 0..MaxScreenshots
  /\ i > 0 => i <= numScreenshots
  /\ closes \in 0..1
  /\ inflight \in 0..1

\* ------------------------------------------------------ history helpers
EventsNamed(name) == {k \in 1..Len(events) : events[k].ev = name}
Happened(name) == EventsNamed(name) # {}
Count(name) == Cardinality(EventsNamed(name))
CountAt(name, idx) ==
  Cardinality({k \in EventsNamed(name) : events[k].idx = idx})

\* the capture loop has been left through its loop test.
CaptureLoopEnded ==
  pc \in {"eval", "evalLoop", "evalLoad", "evalAwait", "summaryAsk",
          "summaryAwait", "evalWriteLog", "reports", "reportLoop", "copy",
          "writeAnnotation", "writeSummary", "writeIndex", "done"}

IsShotOk(e) == e.ev = "shotOk"

\* ------------------------------------------------------------------ C1
\* C1: for N >= 1, when no capture is exhausted the capture loop ends with
\* exactly N snapshot records, record k being the one of loop index k, and
\* the successful captures happened in the order 0, 1, ..., N-1.
C1_ExactlyNInOrder ==
  (numScreenshots >= 1 /\ CaptureLoopEnded) =>
     /\ Len(screenshotPaths) = numScreenshots
     /\ \A k \in 1..numScreenshots : screenshotPaths[k] = ScreenshotPath(k - 1)
     /\ LET oks == SelectSeq(events, IsShotOk)
        IN  /\ Len(oks) = numScreenshots
            /\ \A k \in 1..Len(oks) : oks[k].idx = k - 1

C1_Witness ==
  /\ pc = "eval"
  /\ numScreenshots = MaxScreenshots
  /\ CountAt("shotFail", 1) = 2
  /\ Len(screenshotPaths) = MaxScreenshots

\* ------------------------------------------------------------------ C2
\* C2: a capture that fails exactly twice and then succeeds for snapshot idx
\* yields the record of idx and, unless a later snapshot is exhausted, no
\* error is raised in the run; three failures for snapshot
\* idx always raise the capture error, and the sequence then holds exactly
\* the records 0..idx-1.
C2_RetryThenRecordOrExhaust ==
  \A idx \in 0..MaxScreenshots :
     /\ CountAt("shotFail", idx) <= ShotRetries
     /\ (CountAt("shotFail", idx) = 2 /\ CountAt("shotOk", idx) = 1) =>
           /\ Len(screenshotPaths) >= idx + 1
           /\ screenshotPaths[idx + 1] = ScreenshotPath(idx)
           /\ (\A j \in (idx + 1)..MaxScreenshots : CountAt("shotFail", j) < 3)
                 => (error = "" /\ pc \notin {"catch", "rejected"})
     /\ CountAt("shotFail", idx) = 3 =>
           /\ error = "CaptureError"
           /\ pc \in {"catch", "rejected"}
           /\ CountAt("shotOk", idx) = 0
           /\ Len(screenshotPaths) = idx
           /\ \A k \in 1..idx : screenshotPaths[k] = ScreenshotPath(k - 1)

C2_Witness ==
  /\ CountAt("shotFail", 0) = 2
  /\ CountAt("shotOk", 0) = 1
  /\ CountAt("shotFail", 1) = 3
  /\ pc = "catch"

\* ------------------------------------------------------------------ C3
\* C3: in a run with N >= 1 whose capture loop has started and in which every
\* capture invocation fails, the capture error is raised exactly when the 3rd
\* scheduler attempt has failed, the run never completes normally, and no chat
\* call is made, createReports is not called and no file is written.
AllCapturesFail == ~Happened("shotOk") /\ ~Happened("diagOk")

C3_AlwaysFailingCapture ==
  (numScreenshots >= 1 /\ Happened("setupOk") /\ AllCapturesFail) =>
     /\ Count("shotFail") <= 3
     /\ (pc \in {"catch", "rejected"}) <=> (Count("shotFail") = 3)
     /\ pc \in {"catch", "rejected"} => error = "CaptureError"
     /\ pc = "rejected" => thrown # ""
     /\ pc # "done"
     /\ callInputs = <<>>
     /\ reportCalls = <<>>
     /\ outputDir = EmptyDir

C3_Witness ==
  /\ numScreenshots >= 1
  /\ Happened("setupOk")
  /\ AllCapturesFail
  /\ pc = "rejected"
  /\ Count("shotFail") = 3

\* ------------------------------------------------------------------ C4
\* the conversation is 1 system turn followed by k user/assistant pairs.
SystemPlusPairs(msgs, k) ==
  /\ Len(msgs) >= 1 + 2 * k
  /\ msgs[1].role = "system"
  /\ \A j \in 1..k : /\ msgs[2 * j].role = "user"
                     /\ msgs[2 * j + 1].role = "assistant"

\* the summary call has resolved and the function has not returned yet.
AfterSummaryExchange == pc = "evalWriteLog"

AnalysisFailed ==
  Happened("chatFail") \/ Happened("imageFail") \/ Happened("writeLogFail")

AnalysisReturned ==
  pc \in {"reports", "reportLoop", "copy", "writeAnnotation", "writeSummary",
          "writeIndex", "done"}

IsAnnotationSentinel(t) ==
  t \in {AnnotationSentinel(e) : e \in {"ChatError", "ImageLoadError", "WriteError"}}

IsSummarySentinel(t) ==
  t \in {SummarySentinel(e) : e \in {"ChatError", "ImageLoadError", "WriteError"}}

\* C5: for N >= 1, when the analysis phase failed (a chat call, an image load)
\* the returned annotations hold a sentinel text in every one of the N
\* positions and the summary is a sentinel text.
C5_SentinelInEveryPosition ==
  (numScreenshots >= 1 /\ AnalysisReturned /\ AnalysisFailed) =>
     /\ Len(result.annotations) = Len(screenshotPaths)
     /\ \A k \in 1..Len(result.annotations) :
           IsAnnotationSentinel(result.annotations[k])
     /\ IsSummarySentinel(result.summary)

\* ------------------------------------------------------------------ C6
FileSystemFault ==
  \/ Happened("copyFail") \/ Happened("writeAnnotationFail")
  \/ Happened("writeSummaryFail") \/ Happened("writeIndexFail")
  \/ Happened("writeLogFail")

\* C6: for N >= 1, when a chat call failed (and no file operation failed on
\* the file system) a finished run has written the index document, and that
\* index has one entry for each of the N snapshots.
C6_IndexAfterChatFailure ==
  (numScreenshots >= 1 /\ pc = "done" /\ Happened("chatFail")
     /\ ~FileSystemFault) =>
     /\ outputDir.index # <<>>
     /\ outputDir.index[1].entries =
          [j \in 1..numScreenshots |-> IndexEntry(ScreenshotPath(j - 1), j - 1)]

\* ------------------------------------------------------------------ C7
\* C7: once all N captures have completed, main eventually calls
\* createReports; it is called at most once, and with the full snapshot
\* sequence, whether the analysis succeeded or failed.
C7_AlwaysReachesReports ==
  /\ [](/\ Len(reportCalls) <= 1
        /\ \A k \in 1..Len(reportCalls) :
              /\ reportCalls[k].paths = screenshotPaths
              /\ Len(reportCalls[k].paths) = numScreenshots)
  /\ (pc = "eval") ~> (Len(reportCalls) = 1)

C7_Witness ==
  /\ Len(reportCalls) = 1
  /\ Happened("chatFail")
  /\ Len(callReplies) >= 1
  /\ numScreenshots = MaxScreenshots

\* ------------------------------------------------------------------ C8
\* C8: at most one chat call is outstanding at any time, and every call but
\* the first starts only after the reply of the call before it has been
\* received and appended to the conversation.
C8_StrictlySequential ==
  /\ inflight <= 1
  /\ Len(callInputs) <= Len(callReplies) + 1
  /\ inflight = 1 => Len(callInputs) = Len(callReplies) + 1
  /\ \A k \in 2..Len(callInputs) :
        LET input == callInputs[k]
        IN  /\ Len(input) >= 2
            /\ input[Len(input) - 1] = AIMessage(callReplies[k - 1])

C8_Witness ==
  /\ inflight = 1
  /\ Len(callInputs) = 3
  /\ Len(callReplies) = 2

\* ------------------------------------------------------------------ C9
\* C9: every chat call is given the whole conversation; the input of call k
\* (k >= 1) is the input of call k-1, then the assistant reply to call k-1,
\* then exactly one new user turn.
C9_FullConversationEachCall ==
  /\ inflight = 1 => callInputs[Len(callInputs)] = messages
  /\ Len(callInputs) >= 1 =>
        /\ Len(callInputs[1]) = 2
        /\ callInputs[1][1] = SystemMessage
        /\ callInputs[1][2].role = "user"
  /\ \A k \in 2..Len(callInputs) :
        LET prev == callInputs[k - 1]
            input == callInputs[k]
        IN  /\ Len(input) = Len(prev) + 2
            /\ SubSeq(input, 1, Len(prev)) = prev
            /\ input[Len(prev) + 1] = AIMessage(callReplies[k - 1])
            /\ input[Len(prev) + 2].role = "user"

C9_Witness ==
  /\ Len(callInputs) = MaxScreenshots + 1
  /\ pc = "summaryAwait"

\* ------------------------------------------------------------------ C10
\* C10: every step leaves the conversation unchanged or appends exactly one
\* turn at its end; no turn is removed, replaced or reordered.
C10_AppendOnly ==
  [][\/ messages' = messages
     \/ /\ Len(messages') = Len(messages) + 1
        /\ SubSeq(messages', 1, Len(messages)) = messages]_vars

C10_Witness ==
  /\ Len(messages) = 2 * MaxScreenshots + 2
  /\ pc = "done"

\* ------------------------------------------------------------------ C11
\* a file operation of createReports failed (ReportWriteFailure).
ReportWriteFault ==
  \/ Happened("copyFail") \/ Happened("writeAnnotationFail")
  \/ Happened("writeSummaryFail") \/ Happened("writeIndexFail")
  \/ Happened("writeUndefined")

MainFailed == pc \in {"catch", "rejected"}

\* C11: once the capture loop has started, main fails only when a capture is
\* exhausted (3 failed attempts for the current snapshot); a failed chat call,
\* image load or report write never makes main fail, and a run that ends
\* normally rejects with nothing.
C11_OnlyCaptureExhaustionFails ==
  Happened("setupOk") =>
     /\ MainFailed => /\ error = "CaptureError"
                      /\ CountAt("shotFail", i) = ShotRetries
     /\ (AnalysisFailed \/ ReportWriteFault) => (~MainFailed /\ thrown = "")
     /\ pc = "done" => (thrown = "" /\ error = "")

C11_Witness ==
  /\ pc = "done"
  /\ Happened("chatFail")
  /\ Happened("writeSummaryFail")

\* ------------------------------------------------------------------ C12
DiagEvents == EventsNamed("diagOk") \cup EventsNamed("diagFail")

\* C12: after a capture is exhausted the failure is logged and the diagnostic
\* capture is attempted exactly once; main rejects only after that attempt,
\* which is the last thing that happens in the run.
C12_DiagnosticBeforePropagation ==
  error = "CaptureError" =>
     /\ pc \in {"catch", "rejected"}
     /\ pc = "catch" => (thrown = "" /\ DiagEvents = {})
     /\ thrown # "" <=> pc = "rejected"
     /\ pc = "rejected" =>
           /\ Cardinality(DiagEvents) = 1
           /\ Count("consoleError") = 1
           /\ events[Len(events) - 1].ev = "consoleError"
           /\ Len(events) \in DiagEvents

C12_Witness ==
  /\ error = "CaptureError"
  /\ pc = "rejected"
  /\ Happened("diagOk")
  /\ Len(screenshotPaths) = 1

\* ------------------------------------------------------------------ C13
\* C13: when the report phase has finished and no file operation failed on the
\* file system, the number of annotation files equals the number of
\* snapshots, for a successful and for a degraded analysis result alike.
C13_AnnotationFilePerSnapshot ==
  (pc = "done" /\ ~FileSystemFault) =>
     Cardinality(outputDir.annotations) = Len(screenshotPaths)

\* ------------------------------------------------------------------ C14
\* C14: the index document has exactly one entry per snapshot, in sequence
\* order: entry j (1-based) is labelled j and refers to the image copy and the
\* annotation file of the j-th snapshot, both of which exist; the document
\* links to the transcript and to the summary.
C14_IndexEntries ==
  outputDir.index # <<>> =>
     LET index == outputDir.index[1]
     IN  /\ Len(index.entries) = Len(screenshotPaths)
         /\ Len(index.entries) = numScreenshots
         /\ \A j \in 1..Len(index.entries) :
               /\ index.entries[j].label = j
               /\ index.entries[j].img = [stem |-> j, ext |-> ".png"]
               /\ index.entries[j].img = Basename(screenshotPaths[j])
               /\ index.entries[j].img \in outputDir.images
               /\ index.entries[j].href = [stem |-> j, ext |-> "-annotation.md"]
               /\ \E f \in outputDir.annotations :
                     f.name = index.entries[j].href
         /\ index.links = {"conversation_log.md", "workflow_summary.md"}

C14_Witness ==
  /\ outputDir.index # <<>>
  /\ numScreenshots = MaxScreenshots

\* ------------------------------------------------------------------ C15
\* C15: after a successful analysis there are exactly N annotations,
\* annotation k is the reply to the call whose newest user turn carried the
\* image of snapshot k, and an annotation file named from snapshot k's path
\* holds annotation k.
C15_IndexAligned ==
  (AnalysisReturned /\ ~AnalysisFailed) =>
     /\ Len(result.annotations) = numScreenshots
     /\ \A k \in 1..numScreenshots :
           /\ result.annotations[k] = callReplies[k]
           /\ LET input == callInputs[k]
              IN  /\ input[Len(input)].role = "user"
                  /\ input[Len(input)].image = ImageOf(screenshotPaths[k])
           /\ \A f \in outputDir.annotations :
                 f.name = AnnotationFilename(Basename(screenshotPaths[k]))
                    => f.text = result.annotations[k]
     /\ (pc = "done" /\ ~ReportWriteFault) =>
           Cardinality(outputDir.annotations) = numScreenshots

C15_Witness ==
  /\ pc = "done"
  /\ ~AnalysisFailed
  /\ numScreenshots = MaxScreenshots
  /\ result.annotations[1] # result.annotations[2]
  /\ Cardinality(outputDir.annotations) = MaxScreenshots

\* ------------------------------------------------------------------ C16
\* C16: the scheduler idles once after each successful capture idx < N-1,
\* right after it and right before the iteration of idx+1 starts, and never
\* after the last capture; each idle lasts screenshotIntervalMs, so snapshot
\* k+1 is stamped exactly that long after capture k completed; when all N
\* captures have succeeded there have been exactly N-1 idles.
C16_IdleBetweenCaptures ==
  /\ \A p \in 1..Len(events) :
        /\ events[p].ev = "idle" =>
              /\ events[p].idx < numScreenshots - 1
              /\ events[p - 1] = Event("shotOk", events[p].idx)
              /\ p < Len(events) => events[p + 1] = Event("stamp", events[p].idx + 1)
        /\ (events[p].ev = "shotOk" /\ p < Len(events)) =>
              IF events[p].idx < numScreenshots - 1
                THEN events[p + 1] = Event("idle", events[p].idx)
                ELSE events[p + 1].ev # "idle"
  /\ \A k \in 1..(Len(capturedAt) - 1) :
        capturedAt[k + 1] = completedAt[k] + screenshotIntervalMs
  /\ (numScreenshots >= 1 /\ CaptureLoopEnded) => Count("idle") = numScreenshots - 1

C16_Witness ==
  /\ pc = "eval"
  /\ numScreenshots = MaxScreenshots
  /\ Count("idle") = MaxScreenshots - 1
  /\ screenshotIntervalMs = 0

\* ------------------------------------------------------------------ C17
\* C17: the clock never runs backwards over the stamps, and the timestamps of
\* consecutive snapshots are at least screenshotIntervalMs apart.
C17_StampsAtLeastIntervalApart ==
  /\ \A k \in 1..Len(capturedAt) : capturedAt[k] <= clock
  /\ \A k \in 1..(Len(capturedAt) - 1) :
        capturedAt[k + 1] - capturedAt[k] >= screenshotIntervalMs

C17_Witness ==
  /\ Len(capturedAt) = MaxScreenshots
  /\ screenshotIntervalMs = DefaultIntervalMs
  /\ captureMs = 0
  /\ capturedAt[2] - capturedAt[1] = DefaultIntervalMs
  /\ capturedAt[3] - capturedAt[2] > DefaultIntervalMs

\* ------------------------------------------------------------------ C18
AttemptEvents == {"shotOk", "shotFail"}

\* C18 as stated: the timestamp of a snapshot is taken after the successful
\* attempt for that snapshot has completed.
C18_Original ==
  \A q \in EventsNamed("stamp") :
     \E p \in 1..(q - 1) : events[p] = Event("shotOk", events[q].idx)

\* C18 amended: the timestamp of a snapshot is taken once, when its loop
\* iteration starts and before the first attempt is requested, and is kept
\* over the retries: the successful attempt completes (f+1) attempt durations
\* and f backoff waits after the stamp, f being the failed attempts.
C18_StampedAtIterationStart ==
  /\ \A q \in EventsNamed("stamp") :
        /\ \A p \in 1..(q - 1) :
              events[p].ev \in AttemptEvents => events[p].idx < events[q].idx
        /\ \A p \in (q + 1)..Len(events) :
              events[p].ev = "stamp" => events[p].idx > events[q].idx
  /\ \A p \in 1..Len(events) :
        events[p].ev \in AttemptEvents =>
           \E q \in 1..(p - 1) : events[q] = Event("stamp", events[p].idx)
  /\ Len(capturedAt) = Len(completedAt)
  /\ \A k \in 1..Len(capturedAt) :
        LET f == CountAt("shotFail", k - 1)
        IN  completedAt[k] = capturedAt[k] + (f + 1) * captureMs + f * BackoffMs

C18_Witness ==
  /\ Len(capturedAt) = 2
  /\ captureMs > 0
  /\ CountAt("shotFail", 1) = 2
  /\ completedAt[2] = capturedAt[2] + 3 * captureMs + 2 * BackoffMs

\* ------------------------------------------------------------------ C19
\* C19: after a successful analysis of N snapshots the transcript holds, for
\* the snapshots in order, one "Screenshot" section each (number, file name,
\* timestamp, annotation text) and then one final summary section with the
\* summary text: N Screenshot headings and one summary heading.
C19_Transcript ==
  /\ (AnalysisReturned /\ ~AnalysisFailed) => outputDir.log # <<>>
  /\ outputDir.log # <<>> =>
        LET log == outputDir.log[1]
            n == Len(screenshotPaths)
        IN  /\ n = numScreenshots
            /\ Len(log) = n + 1
            /\ \A k \in 1..n :
                  /\ log[k].heading = "Screenshot"
                  /\ log[k].n = k
                  /\ log[k].file = Basename(screenshotPaths[k])
                  /\ log[k].timestamp >= completedAt[n]
                  /\ log[k].text = annotations[k]
            /\ log[n + 1].heading = "Workflow Summary"
            /\ log[n + 1].text = summary
            /\ Cardinality({k \in 1..Len(log) : log[k].heading = "Screenshot"}) = n
            /\ AnalysisReturned =>
                  (~AnalysisFailed =>
                      result = [annotations |-> annotations, summary |-> summary])

C19_Witness ==
  /\ outputDir.log # <<>>
  /\ numScreenshots = 3
  /\ Len(outputDir.log[1]) = 4
  /\ pc = "done"

\* ------------------------------------------------------------------ C20
CaptureEvents == {"stamp", "shotOk", "shotFail", "backoff", "idle"}
ChatEvents == {"chatCall", "chatReply", "chatFail", "imageFail"}
ReportEvents == {"createReports", "copy", "copyFail", "writeAnnotation",
                 "writeAnnotationFail", "writeUndefined", "writeSummary",
                 "writeSummaryFail", "writeIndex", "writeIndexFail"}
PositionsOf(names) == {p \in 1..Len(events) : events[p].ev \in names}

\* C20: every capture attempt, backoff and idle precedes the first chat call,
\* every chat call precedes every step of createReports, no report file exists
\* before the analysis has returned, and the transcript is written only when
\* all N annotations and the summary have been obtained.
C20_PhasesInSequence ==
  /\ \A p \in PositionsOf(CaptureEvents) :
        \A q \in PositionsOf(ChatEvents \cup ReportEvents \cup {"writeLog"}) : p < q
  /\ \A p \in PositionsOf(ChatEvents \cup {"writeLog", "writeLogFail"}) :
        \A q \in PositionsOf(ReportEvents) : p < q
  /\ callInputs # <<>> =>
        (CaptureLoopEnded /\ Len(screenshotPaths) = numScreenshots)
  /\ ~AnalysisReturned =>
        /\ outputDir.images = {} /\ outputDir.annotations = {}
        /\ outputDir.summary = <<>> /\ outputDir.index = <<>>
        /\ reportCalls = <<>>
  /\ outputDir.log # <<>> =>
        /\ inflight = 0
        /\ Len(callReplies) = numScreenshots + 1
        /\ Len(annotations) = numScreenshots
        /\ summary = callReplies[numScreenshots + 1]

C20_Witness ==
  /\ pc = "done"
  /\ outputDir.index # <<>>
  /\ outputDir.log # <<>>
  /\ Happened("idle")
  /\ Happened("backoff")

\* ------------------------------------------------------------------ C21
\* C21: when createReports has run again with the same arguments and no file
\* operation failed on the file system, the directory holds the same image,
\* annotation, summary and index file names as the previous run left, every
\* annotation and summary file holds the content of the latest run, and no
\* name occurs twice.
C21_SecondRunSameFiles ==
  (pc = "done" /\ Len(reportCalls) >= 2 /\ ~FileSystemFault) =>
     /\ reportCalls[Len(reportCalls)] = reportCalls[1]
     /\ outputDir.images = priorDir.images
     /\ {f.name : f \in outputDir.annotations}
          = {f.name : f \in priorDir.annotations}
     /\ \A f, g \in outputDir.annotations : f.name = g.name => f = g
     /\ \A f \in outputDir.annotations :
           \E k \in 1..Len(result.annotations) :
              /\ k <= Len(screenshotPaths)
              /\ f.name = AnnotationFilename(Basename(screenshotPaths[k]))
              /\ f.text = result.annotations[k]
     /\ Len(outputDir.summary) = Len(priorDir.summary)
     /\ outputDir.summary \in {<<>>, <<result.summary>>}
     /\ Len(outputDir.index) = Len(priorDir.index)

C21_Witness ==
  /\ pc = "done"
  /\ Len(reportCalls) = 2
  /\ ~FileSystemFault
  /\ Cardinality(outputDir.annotations) >= 2
  /\ outputDir.summary = <<result.summary>>
  /\ outputDir.index # <<>>

\* ------------------------------------------------------------------ C22
\* the user turns of a message list that carry the image of a snapshot.
ImageTurns(msgs) ==
  {j \in 1..Len(msgs) : msgs[j].role = "user" /\ msgs[j].image # NoImage}

\* C22: in every message list handed to the chat capability, the prompt text
\* of the user turn of snapshot 0 differs from the prompt text of the user
\* turn of every later snapshot.
C22_FirstPromptDiffers ==
  \A c \in 1..Len(callInputs) :
     LET msgs == callInputs[c]
     IN  \A j0, j \in ImageTurns(msgs) :
            (msgs[j0].image = ImageOf(ScreenshotPath(0))
               /\ msgs[j].image # ImageOf(ScreenshotPath(0)))
              => msgs[j0].text # msgs[j].text

C22_Witness ==
  \E c \in 1..Len(callInputs) :
     /\ Cardinality(ImageTurns(callInputs[c])) >= 3
     /\ callInputs[c][2].image = ImageOf(ScreenshotPath(0))

\* ------------------------------------------------------------------ C23
\* the tokens of the command line that set the option key.
OccurrencesOf(key) ==
  {k \in 1..Len(argv) : argv[k].dashes /\ argv[k].key = key}

\* the numeric option values of the command lines tried, with their values.
NumericExamples ==
  {[chars |-> <<"0">>, val |-> 0], [chars |-> <<"3">>, val |-> 3],
   [chars |-> <<"2", "5">>, val |-> 25], [chars |-> <<"-", "1">>, val |-> 0 - 1]}

\* every occurrence of the option carries the numeric text e.chars.
PresentWith(key, e) ==
  /\ OccurrencesOf(key) # {}
  /\ \A k \in OccurrencesOf(key) : argv[k].value = Str(e.chars)

\* C23: after the option parsing, numScreenshots is 10 when no token sets
\* num_screenshots and screenshotIntervalMs is 60000 when no token sets
\* interval_ms; when the option is present with a numeric value, that value is
\* used instead of the default.
C23_DefaultsAndOverrides ==
  pc = "parsed" =>
     /\ OccurrencesOf("num_screenshots") = {}
          => config.numScreenshots = Num(10)
     /\ OccurrencesOf("interval_ms") = {}
          => config.screenshotIntervalMs = Num(60000)
     /\ \A e \in NumericExamples :
          /\ PresentWith("num_screenshots", e)
               => config.numScreenshots = Num(e.val)
          /\ PresentWith("interval_ms", e)
               => config.screenshotIntervalMs = Num(e.val)

C23_Witness ==
  /\ pc = "parsed"
  /\ OccurrencesOf("num_screenshots") = {}
  /\ config.numScreenshots = Num(10)
  /\ PresentWith("interval_ms", [chars |-> <<"2", "5">>, val |-> 25])
  /\ config.screenshotIntervalMs = Num(25)

\* ------------------------------------------------------------------ C24
\* the event at position p is a capture attempt of snapshot idx.
IsAttemptOf(p, idx) ==
  events[p].ev \in {"shotOk", "shotFail"} /\ events[p].idx = idx

\* C24: a snapshot is attempted at most 3 times; a failed attempt is followed
\* either by the abort (it was the 3rd failure) or by exactly one backoff and
\* then the retry of the same snapshot; a backoff only ever follows a failed
\* attempt, never a successful one; an exhausted snapshot has had exactly 2
\* backoffs; and every backoff lasts 5000 ms.
C24_BackoffPerRetry ==
  /\ [](/\ \A p \in 1..Len(events) :
             LET idx == events[p].idx
             IN  /\ events[p].ev \in {"shotOk", "shotFail"} =>
                       CountAt("shotOk", idx) + CountAt("shotFail", idx) <= 3
                 /\ (events[p].ev = "shotFail" /\ p < Len(events)) =>
                       \/ /\ events[p + 1] = Event("backoff", idx)
                          /\ p + 2 <= Len(events) => IsAttemptOf(p + 2, idx)
                       \/ /\ events[p + 1].ev = "consoleError"
                          /\ CountAt("shotFail", idx) = 3
                 /\ events[p].ev = "backoff" =>
                       /\ p > 1
                       /\ events[p - 1] = Event("shotFail", idx)
                 /\ (events[p].ev = "shotFail" /\ CountAt("shotFail", idx) = 3) =>
                       /\ CountAt("backoff", idx) = 2
                       /\ CountAt("shotOk", idx) = 0
                       /\ pc \in {"catch", "rejected"})
  /\ [][(Len(events') = Len(events) + 1
           /\ events'[Len(events')].ev = "backoff") => clock' = clock + 5000]_vars

C24_Witness ==
  /\ CountAt("shotFail", 0) = 1
  /\ CountAt("backoff", 0) = 1
  /\ CountAt("shotOk", 0) = 1
  /\ CountAt("shotFail", 1) = 3
  /\ CountAt("backoff", 1) = 2
  /\ pc = "rejected"

\* ------------------------------------------------------------------ C25
\* C25: at most one chat call or image load fails in a run, and no chat call
\* is started after it: neither for a later snapshot nor for the summary.
C25_NoCallAfterFailure ==
  /\ Count("chatFail") + Count("imageFail") <= 1
  /\ \A p \in PositionsOf({"chatFail", "imageFail"}) :
        \A q \in EventsNamed("chatCall") : q < p

C25_Witness ==
  /\ numScreenshots >= 3
  /\ pc = "done"
  /\ Count("chatFail") = 1
  /\ Count("chatCall") = 1

\* ------------------------------------------------------------------ C26
\* C26: when the analysis of N snapshots returns without a failure, the chat
\* capability was called exactly N + 1 times; call k (k <= N) ends with the
\* user turn of snapshot k - 1; the last call holds the system turn, the N
\* user/assistant pairs in order and then the summary request; and the
\* returned summary is the reply to that last call.
C26_CallsAndSummary ==
  (AnalysisReturned /\ ~AnalysisFailed) =>
     LET n == Len(screenshotPaths)
     IN  /\ Count("chatCall") = n + 1
         /\ Len(callInputs) = n + 1
         /\ Len(callReplies) = n + 1
         /\ \A k \in 1..n :
               LET msgs == callInputs[k]
               IN  /\ Len(msgs) = 2 * k
                   /\ msgs[2 * k].role = "user"
                   /\ msgs[2 * k].image = ImageOf(screenshotPaths[k])
         /\ LET last == callInputs[n + 1]
            IN  /\ Len(last) = 2 * n + 2
                /\ last[1] = SystemMessage
                /\ \A k \in 1..n :
                      /\ last[2 * k].role = "user"
                      /\ last[2 * k].image = ImageOf(screenshotPaths[k])
                      /\ last[2 * k + 1] = AIMessage(callReplies[k])
                /\ last[2 * n + 2] = HumanMessage(SummaryPrompt, NoImage)
         /\ result.summary = callReplies[n + 1]

C26_Witness ==
  /\ pc = "reports"
  /\ ~AnalysisFailed
  /\ Len(screenshotPaths) >= 2
  /\ Len(callInputs) = Len(screenshotPaths) + 1
  /\ callReplies[1] # callReplies[Len(callReplies)]

\* ------------------------------------------------------------------ C27
\* C27: every message list handed to the chat capability starts with the
\* system turn and has no other system turn; from the second turn on the
\* roles alternate user, assistant, ..., and the last turn is a user turn;
\* every user turn carries an image except the summary request, which is the
\* last turn of the call after the N per-snapshot calls and carries none.
C27_WellFormedConversation ==
  \A c \in 1..Len(callInputs) :
     LET msgs == callInputs[c]
     IN  /\ Len(msgs) >= 2
         /\ msgs[1].role = "system"
         /\ \A j \in 2..Len(msgs) :
               msgs[j].role = IF j % 2 = 0 THEN "user" ELSE "assistant"
         /\ msgs[Len(msgs)].role = "user"
         /\ \A j \in 2..Len(msgs) :
               msgs[j].role = "user" =>
                  IF c = Len(screenshotPaths) + 1 /\ j = Len(msgs)
                    THEN msgs[j].image = NoImage
                    ELSE msgs[j].image # NoImage

C27_Witness ==
  /\ Len(screenshotPaths) >= 2
  /\ Len(callInputs) = Len(screenshotPaths) + 1
  /\ callInputs[Len(callInputs)][Len(callInputs[Len(callInputs)])].image = NoImage

\* ------------------------------------------------------------------ C28
\* C28: a run that finished the report phase without a file operation failing
\* on the file system has a transcript document and a summary document in its
\* directory, whether or not the analysis was degraded.
C28_TranscriptAndSummaryPersisted ==
  (pc = "done" /\ ~FileSystemFault) =>
     /\ outputDir.log # <<>>
     /\ outputDir.summary # <<>>

\* ------------------------------------------------------------------ C29
ReportFaults == {"copyFail", "writeAnnotationFail", "writeUndefined",
                 "writeSummaryFail", "writeIndexFail"}

\* C29: when a file operation of createReports fails, createReports ends at
\* that step: the failure is the last event of the run, every image and
\* annotation file written before it is still in the directory, and the files
\* of the later steps (the remaining annotations, the summary, the index) are
\* not there.
C29_NoRollbackNoLaterWrite ==
  PositionsOf(ReportFaults) # {} =>
     /\ pc = "done"
     /\ PositionsOf(ReportFaults) = {Len(events)}
     /\ \A p \in EventsNamed("copy") :
           Basename(ScreenshotPath(events[p].idx)) \in outputDir.images
     /\ \A p \in EventsNamed("writeAnnotation") :
           \E f \in outputDir.annotations :
              /\ f.name = AnnotationFilename(Basename(ScreenshotPath(events[p].idx)))
              /\ f.text = result.annotations[events[p].idx + 1]
     /\ Cardinality(outputDir.images) = Count("copy")
     /\ Cardinality(outputDir.annotations) = Count("writeAnnotation")
     /\ Happened("writeSummary") <=> outputDir.summary # <<>>
     /\ outputDir.index = <<>>

C29_Witness ==
  /\ pc = "done"
  /\ events[Len(events)] = Event("writeAnnotationFail", 2)
  /\ Cardinality(outputDir.annotations) = 2
  /\ Cardinality(outputDir.images) = 3
  /\ outputDir.summary = <<>>
  /\ outputDir.index = <<>>

\* ------------------------------------------------------------------ C30
\* C30: when main rejects after a capture was exhausted, it rejects with the
\* error of the exhausted capture, whatever the diagnostic capture did.
C30_PropagatesCaptureError ==
  (pc = "rejected" /\ error = "CaptureError") => thrown = "CaptureError"

\* ------------------------------------------------------------------ C31
\* the capture attempts of the scheduler made so far.
Attempts == Count("shotOk") + Count("shotFail")

\* C31: before every attempt the retries left are 3 minus the failures of the
\* current snapshot alone; the counter is set to 3 when a snapshot starts; the
\* retries of a snapshot keep its index and its timestamp, hence its path;
\* and when the loop has ended the run has made between N and 3N attempts.
C31_BudgetPerSnapshot ==
  /\ [](/\ pc = "shot" => screenshotRetries = 3 - CountAt("shotFail", i)
        /\ (numScreenshots >= 1 /\ CaptureLoopEnded) =>
              /\ Attempts >= numScreenshots
              /\ Attempts <= 3 * numScreenshots)
  /\ [][(pc = "loop" /\ pc' = "shot") => screenshotRetries' = 3]_vars
  /\ [][(pc \in {"shot", "shotWait"} /\ pc' \in {"shot", "shotWait"}) =>
           (i' = i /\ timestamp' = timestamp)]_vars

C31_Witness ==
  /\ pc = "eval"
  /\ numScreenshots = 2
  /\ CountAt("shotFail", 0) = 2
  /\ CountAt("shotFail", 1) = 2
  /\ Attempts = 6

\* ------------------------------------------------------------------ C32
\* C32: once the capture loop is entered the run ends, either normally after
\* the report phase or rejected after an exhausted capture; it never makes
\* more than 3N capture attempts, one diagnostic capture and N + 1 chat calls.
C32_TerminatesWithinBounds ==
  /\ [](/\ Attempts <= 3 * numScreenshots
        /\ Count("diagOk") + Count("diagFail") <= 1
        /\ Count("chatCall") <= numScreenshots + 1)
  /\ (pc = "loop") ~> (pc = "done" \/ (pc = "rejected" /\ error = "CaptureError"))

C32_Witness ==
  /\ pc = "done"
  /\ numScreenshots >= 2
  /\ Attempts = 3 * numScreenshots
  /\ Count("chatCall") = numScreenshots + 1

\* ------------------------------------------------------------------ C33
\* C33: when the path list file exists, all N captures have succeeded before
\* the write and the file holds the N paths in the order of the successful
\* captures; when a capture was exhausted the file does not exist.
C33_PathListAfterAllCaptures ==
  /\ pathsFile.paths # <<>> =>
        LET oks == SelectSeq(events, IsShotOk)
        IN  /\ Len(oks) = numScreenshots
            /\ Count("writePaths") = 1
            /\ \A p \in EventsNamed("shotOk") :
                  \A q \in EventsNamed("writePaths") : p < q
            /\ pathsFile.paths[1].items
                 = [k \in 1..numScreenshots |-> ScreenshotPath(oks[k].idx)]
            /\ \A k \in 1..numScreenshots : oks[k].idx = k - 1
  /\ error = "CaptureError" => pathsFile.paths = <<>>

C33_Witness ==
  /\ pc = "done"
  /\ numScreenshots >= 2
  /\ Happened("shotFail")
  /\ Len(pathsFile.paths) = 1
  /\ Len(pathsFile.paths[1].items) = numScreenshots

\* ------------------------------------------------------------------ C34
\* C34: stagehand.close is invoked at most once, and only after main has
\* returned normally; when run ends after a normal return of main it has been
\* invoked exactly once, and when main rejected (as after an exhausted
\* capture) run ends rejected without having invoked it.
C34_CloseOnlyOnNormalReturn ==
  /\ closes <= 1
  /\ closes = 1 => (thrown = "" /\ error = "" /\ Happened("createReports"))
  /\ pc = "exited" => closes = 1
  /\ (pc = "runRejected" /\ error # "") => closes = 0

C34_Witness ==
  /\ pc = "runRejected"
  /\ error = "CaptureError"
  /\ closes = 0

\* ------------------------------------------------------------------ C35
\* the snapshot count is not a number, or is a number below 1.
NoSnapshots == config.numScreenshots.nan \/ config.numScreenshots.val <= 0

\* C35: when the snapshot count is 0, negative or NaN there is no capture
\* attempt, backoff or idle; the run does not fail after the login; the
\* analysis makes exactly one chat call, whose input is the system turn and
\* the summary request; and a run that finishes without a file operation
\* failing has a summary document and an index document with no entries.
C35_NoSnapshotsStillReports ==
  NoSnapshots =>
     /\ PositionsOf(CaptureEvents) = {}
     /\ screenshotPaths = <<>>
     /\ Happened("setupOk") => pc \notin {"catch", "rejected"}
     /\ Count("chatCall") <= 1
     /\ AnalysisReturned =>
           /\ Count("chatCall") = 1
           /\ callInputs = <<<<SystemMessage, HumanMessage(SummaryPrompt, NoImage)>>>>
     /\ (pc = "done" /\ ~FileSystemFault) =>
           /\ Len(outputDir.summary) = 1
           /\ Len(outputDir.index) = 1
           /\ outputDir.index[1].entries = <<>>
           /\ outputDir.images = {}

C35_Witness ==
  /\ config.numScreenshots.nan
  /\ pc = "done"
  /\ Count("chatCall") = 1
  /\ Len(outputDir.index) = 1

\* ------------------------------------------------------------------ C36
\* C36: the navigation is attempted at most 3 times; a failed attempt is
\* followed either by one 5000 ms wait and the next attempt or, when it was
\* the 3rd failure, by the throw; a wait only ever follows a failed attempt;
\* and after 3 failures main fails with the navigation error and the
\* scheduler makes no capture attempt.
C36_NavigationBoundedRetry ==
  /\ [](/\ Count("gotoOk") + Count("gotoFail") <= 3
        /\ \A p \in 1..Len(events) :
              /\ (events[p].ev = "gotoFail" /\ p < Len(events)) =>
                    \/ /\ events[p + 1].ev = "navBackoff"
                       /\ p + 2 <= Len(events) =>
                             events[p + 2].ev \in {"gotoOk", "gotoFail"}
                    \/ /\ events[p + 1].ev = "consoleError"
                       /\ Count("gotoFail") = 3
              /\ events[p].ev = "navBackoff" =>
                    (p > 1 /\ events[p - 1].ev = "gotoFail")
        /\ Count("gotoFail") = 3 =>
              /\ Count("navBackoff") = 2
              /\ pc \in {"catch", "rejected"}
              /\ error = "NavigationError"
              /\ PositionsOf({"stamp", "shotOk", "shotFail"}) = {})
  /\ [][(Len(events') = Len(events) + 1
           /\ events'[Len(events')].ev = "navBackoff") => clock' = clock + 5000]_vars

C36_Witness ==
  /\ Count("gotoFail") = 3
  /\ Count("navBackoff") = 2
  /\ pc = "rejected"

====
